---- MODULE Spec2Model ----
(***************************************************************************)
(* Model of the pickleball video-analysis engine                           *)
(* (src/video-analysis/analyzer.py) and of the job server in front of it   *)
(* (src/video-analysis/api_server.py).                                     *)
(*                                                                         *)
(* Numbers.  The program computes in floating point; the model computes    *)
(* in scaled integers:                                                     *)
(*   fps            hundredths of a frame per second   (2997 = 29.97)      *)
(*   pixel speeds   hundredths of a pixel              (floor of the root) *)
(*   angles         thousandths of a radian                                *)
(*   percentages    tenths of a percent                                    *)
(*   job progress   ten-thousandths                    (10000 = 1.0)       *)
(* Comparisons against the program's thresholds are exact except within    *)
(* one unit of the scale.                                                  *)
(*                                                                         *)
(* Optional values: None is the empty sequence << >>, a position is the    *)
(* pair <<x, y>>.                                                          *)
(***************************************************************************)
EXTENDS Integers, Sequences, FiniteSets

VARIABLES
    \* ---- the video source (cv2.VideoCapture) and the environment
    video,              \* what the source holds: metadata and frame contents
    \* ---- locals of PickleballAnalyzer.analyze_video
    pc,                 \* "init" | "loop" | "done" | "raised"
    error,              \* "none" | "ValueError" | "ZeroDivisionError"
    fps,                \* hundredths of a frame per second
    total_frames,
    frame_skip,
    frame_number,
    last_shot_frame,
    shot_type,          \* last value returned by detect_shot
    ball_pos,           \* last value returned by detect_ball
    \* ---- PickleballAnalyzer fields
    shots,
    movements,
    current_rally_length,
    rally_lengths,
    unforced_errors,
    winners,
    results,            \* the AnalysisResults returned, << >> before
    \* ---- CourtDetector fields
    court_corners,
    perspective_matrix,
    \* ---- BallTracker fields
    last_position,
    velocity,
    ball_history,
    \* ---- PlayerTracker fields
    position_history,
    \* ---- observation of the run (history variables, not program state)
    calls,              \* which collaborator was invoked on which frame
    detected,           \* every detected ball position, in detection order
    shot_outcome,       \* what the last sampled frame did with its verdict
    \* ---- harness of the pure functions
    frame_regions,      \* the candidate regions of the frame given to detect_ball
    ar,                 \* an AnalysisResults value
    stats,              \* what the call under the harness returned, << >> before
    \* ---- api_server: the job table, the disk, the background tasks
    jobs,               \* job id -> the job's dict, << >> before it is created
    files,              \* the paths that exist under UPLOAD_DIR and RESULTS_DIR
    task,               \* job id -> where its process_video task stands
    results_dict,       \* job id -> process_video's local results_dict
    response,           \* the last HTTP response sent
    webhook_posts,      \* the posts made to webhook urls, in order
    aiohttp_installed   \* whether "import aiohttp" succeeds

vars == <<video, pc, error, fps, total_frames, frame_skip, frame_number,
          last_shot_frame, shot_type, ball_pos, shots, movements,
          current_rally_length, rally_lengths, unforced_errors, winners,
          results, court_corners, perspective_matrix, last_position,
          velocity, ball_history, position_history, calls, detected,
          shot_outcome, frame_regions, ar, stats, jobs, files, task,
          results_dict, response, webhook_posts, aiohttp_installed>>

None == << >>

----------------------------------------------------------------------------
(* Arithmetic helpers                                                      *)

Max(a, b) == IF a >= b THEN a ELSE b
Min(a, b) == IF a <= b THEN a ELSE b
Abs(a) == IF a < 0 THEN -a ELSE a

\* Python's int(): truncation toward zero of the rational num/den, den > 0.
TruncDiv(num, den) == IF num >= 0 THEN num \div den ELSE -((-num) \div den)

\* Python's round(): the nearest integer to num/den, halves to the even one
\* (num >= 0, den > 0).
RoundHalfEven(num, den) ==
    LET q == num \div den
        r == num % den
    IN  IF 2 * r < den THEN q
        ELSE IF 2 * r > den THEN q + 1
        ELSE IF q % 2 = 0 THEN q ELSE q + 1

RECURSIVE SqrtIter(_, _)
SqrtIter(n, x) ==
    IF (x + n \div x) \div 2 >= x THEN x ELSE SqrtIter(n, (x + n \div x) \div 2)

\* floor of the square root (np.sqrt on a scaled integer)
ISqrt(n) == IF n <= 0 THEN 0 ELSE SqrtIter(n, n)

RECURSIVE SumSeq(_)
SumSeq(s) == IF s = << >> THEN 0 ELSE Head(s) + SumSeq(Tail(s))

RECURSIVE SumSquares(_)
SumSquares(s) == IF s = << >> THEN 0 ELSE Head(s) * Head(s) + SumSquares(Tail(s))

\* the last n elements of s (Python's s[-n:])
LastN(s, n) == IF Len(s) <= n THEN s ELSE SubSeq(s, Len(s) - n + 1, Len(s))

\* arctan(n/d) for 0 <= n <= d, d > 0, in thousandths of a radian
\* (Abramowitz-Stegun 4.4.47, error below 1e-4 rad in this scaling)
AtanUnit(n, d) ==
    LET x  == (n * 10000) \div d
        x2 == (x * x) \div 10000
        p4 == 2084
        p3 == -8513 + (p4 * x2) \div 10000
        p2 == 18014 + (p3 * x2) \div 10000
        p1 == -33030 + (p2 * x2) \div 10000
        p0 == 99987 + (p1 * x2) \div 10000
    IN  (x * p0 + 500000) \div 1000000

\* np.arctan2(dy, dx) in thousandths of a radian, in (-pi, pi]
ArcTan2(dy, dx) ==
    IF dx = 0 /\ dy = 0 THEN 0
    ELSE LET ay == Abs(dy)
             ax == Abs(dx)
             a0 == IF ay <= ax THEN AtanUnit(ay, ax)
                   ELSE 1571 - AtanUnit(ax, ay)   \* pi/2 - a
             a1 == IF dx < 0 THEN 3142 - a0 ELSE a0   \* pi - a
         IN  IF dy < 0 THEN -a1 ELSE a1

----------------------------------------------------------------------------
(* BallTracker                                                             *)

\* A candidate region (a contour) of a frame as cv2 measures it:
\* [area, perimeter, cx, cy], cx = m10/m00 and cy = m01/m00.
MinBallArea == 50
MaxBallArea == 5000
BallHistoryCap == 30
ShotWindow == 5

\* a variant that forgets the upper bound on the area
AreaInRangeNoUpper(area) == ~(area < MinBallArea)

\* area < 50 or area > 5000: continue
AreaInRange(area) == ~(area < MinBallArea \/ area > MaxBallArea)

\* circularity = 4*pi*area / perimeter^2, compared without dividing
\* (pi as 355/113)
CircularityAboveHalf(area, perimeter) ==
    8 * 355 * area > 113 * perimeter * perimeter

\* circularity of (a1, p1) > circularity of (a2, p2); p1, p2 > 0
CircularityGreater(a1, p1, a2, p2) == a1 * p2 * p2 > a2 * p1 * p1

\* M["m00"] of a contour is its area
M00(region) == region.area

\* The loop over the contours: best is [match, area, perimeter], the best
\* circularity so far kept as the pair it was computed from (0 at the start).
RECURSIVE BestMatchLoop(_, _)
BestMatchLoop(contours, best) ==
    IF contours = << >> THEN best.match
    ELSE LET c == Head(contours)
             rest == Tail(contours)
         IN  IF ~AreaInRange(c.area) THEN BestMatchLoop(rest, best)
             ELSE IF c.perimeter = 0 THEN BestMatchLoop(rest, best)
             ELSE IF CircularityGreater(c.area, c.perimeter, best.area, best.perimeter)
                     /\ CircularityAboveHalf(c.area, c.perimeter)
                  THEN BestMatchLoop(rest,
                         [match |-> IF M00(c) # 0 THEN <<c.cx, c.cy>> ELSE best.match,
                          area |-> c.area, perimeter |-> c.perimeter])
                  ELSE BestMatchLoop(rest, best)

\* best_match of detect_ball for the contours of one frame
BestMatch(contours) ==
    IF contours = << >> THEN None
    ELSE BestMatchLoop(contours, [match |-> None, area |-> 0, perimeter |-> 1])

\* a variant that takes the origin for a missing last position
NewVelocityFromOrigin(lastpos, vel, best_match) ==
    IF lastpos # None
    THEN <<best_match[1] - lastpos[1], best_match[2] - lastpos[2]>>
    ELSE best_match

\* velocity after a detection at best_match
NewVelocity(lastpos, vel, best_match) ==
    IF lastpos # None
    THEN <<best_match[1] - lastpos[1], best_match[2] - lastpos[2]>>
    ELSE vel

\* a variant that evicts with pop() instead of pop(0): the newest entry goes
PushHistoryPopNewest(history, best_match) ==
    LET h == Append(history, best_match)
    IN  IF Len(h) > BallHistoryCap THEN SubSeq(h, 1, Len(h) - 1) ELSE h

\* ball_history.append(best_match), then pop(0) when longer than 30
PushHistory(history, best_match) ==
    LET h == Append(history, best_match)
    IN  IF Len(h) > BallHistoryCap THEN Tail(h) ELSE h

\* get_speed, in hundredths of a pixel per frame
GetSpeed(vel) == ISqrt((vel[1] * vel[1] + vel[2] * vel[2]) * 10000)

\* ---- detect_shot

\* directions: arctan2(dy, dx) of each step from point i on, in
\* thousandths of a radian
RECURSIVE DirectionsFrom(_, _)
DirectionsFrom(recent, i) ==
    IF i >= Len(recent) THEN << >>
    ELSE <<ArcTan2(recent[i + 1][2] - recent[i][2], recent[i + 1][1] - recent[i][1])>>
         \o DirectionsFrom(recent, i + 1)
Directions(recent) == DirectionsFrom(recent, 1)

\* speeds: sqrt(dx^2 + dy^2) of each step from point i on, in hundredths
\* of a pixel
RECURSIVE SpeedsFrom(_, _)
SpeedsFrom(recent, i) ==
    IF i >= Len(recent) THEN << >>
    ELSE <<ISqrt(((recent[i + 1][1] - recent[i][1]) * (recent[i + 1][1] - recent[i][1])
                  + (recent[i + 1][2] - recent[i][2]) * (recent[i + 1][2] - recent[i][2]))
                 * 10000)>>
         \o SpeedsFrom(recent, i + 1)
Speeds(recent) == SpeedsFrom(recent, 1)

\* np.mean(speeds) > t and np.mean(speeds) < t, t in pixels
MeanSpeedAbove(speeds, t) == SumSeq(speeds) > t * 100 * Len(speeds)
MeanSpeedBelow(speeds, t) == SumSeq(speeds) < t * 100 * Len(speeds)

\* np.std(directions) < 0.3: the population variance below 0.09
\* (n * sum d^2 - (sum d)^2 < 0.09 * n^2, d in thousandths)
DirectionChangeSmall(directions) ==
    LET n == Len(directions)
        sum == SumSeq(directions)
    IN  n * SumSquares(directions) - sum * sum < 90000 * n * n

\* all(d < -0.5 for d in directions[-3:])
AllBelow(directions) ==
    \A i \in 1..Len(directions) : i > Len(directions) - 3 => directions[i] < -500
\* all(d > 0.3 for d in directions[-3:])
AllAbove(directions) ==
    \A i \in 1..Len(directions) : i > Len(directions) - 3 => directions[i] > 300

\* the four rules of detect_shot, each as the code tests it, on the speeds
\* and directions of the window and the length of the whole history
DriveRule(speeds, directions) ==
    MeanSpeedAbove(speeds, 20) /\ DirectionChangeSmall(directions)
DinkRule(speeds, length) ==
    MeanSpeedBelow(speeds, 8) /\ length > 10
LobRule(directions) ==
    Len(directions) > 2 /\ AllBelow(directions)
DropRule(speeds, directions) ==
    MeanSpeedBelow(speeds, 15) /\ Len(directions) > 2 /\ AllAbove(directions)

\* a variant that tests the directional rules before the speed rules
ClassifyDirectionFirst(speeds, directions, length) ==
    IF LobRule(directions) THEN "lob"
    ELSE IF DropRule(speeds, directions) THEN "drop"
    ELSE IF DriveRule(speeds, directions) THEN "drive"
    ELSE IF DinkRule(speeds, length) THEN "dink"
    ELSE "unknown"

\* the verdict for a window with these speeds and directions
Classify(speeds, directions, length) ==
    IF DriveRule(speeds, directions) THEN "drive"
    ELSE IF DinkRule(speeds, length) THEN "dink"
    ELSE IF LobRule(directions) THEN "lob"
    ELSE IF DropRule(speeds, directions) THEN "drop"
    ELSE "unknown"

\* a variant that classifies one point early (len(ball_history) < 4)
DetectShotFourPoints(history) ==
    IF Len(history) < ShotWindow - 1 THEN "none"
    ELSE LET recent == LastN(history, ShotWindow)
         IN  Classify(Speeds(recent), Directions(recent), Len(history))

\* detect_shot: "none" is None, the others are ShotType values
DetectShot(history) ==
    IF Len(history) < ShotWindow THEN "none"
    ELSE LET recent == LastN(history, ShotWindow)
         IN  Classify(Speeds(recent), Directions(recent), Len(history))

----------------------------------------------------------------------------
(* The video source.  `video` holds what cv2.VideoCapture would deliver    *)
(* and the arguments of the run:                                           *)
(*   fps, total_frames    the metadata the source reports                  *)
(*   n_frames             how many frames cap.read() delivers              *)
(*   width, height        frame.shape[1], frame.shape[0]                   *)
(*   step1, step2, turn   the ball moves by step1 per source frame up to   *)
(*                        frame `turn`, by step2 after it                  *)
(*   hide_from, hide_len  the ball is not in view on these frames          *)
(*   callback             whether a progress_callback was passed           *)
(*   mediapipe            MEDIAPIPE_AVAILABLE                              *)

BallAt(f) ==
    <<400 + Min(f, video.turn) * video.step1[1] + Max(0, f - video.turn) * video.step2[1],
      300 + Min(f, video.turn) * video.step1[2] + Max(0, f - video.turn) * video.step2[2]>>

BallVisible(f) == ~(video.hide_from <= f /\ f < video.hide_from + video.hide_len)

\* the contours cv2.findContours returns on source frame f: a large bright
\* region that is no ball, and the ball when it is in view
Regions(f) ==
    <<[area |-> 6000, perimeter |-> 280, cx |-> 640, cy |-> 10]>>
    \o (IF BallVisible(f)
        THEN <<[area |-> 200, perimeter |-> 52, cx |-> BallAt(f)[1], cy |-> BallAt(f)[2]]>>
        ELSE << >>)

\* the lines cv2.HoughLinesP returns on frame f, each as its absolute angle
\* in degrees; None when it finds no line
HoughLines(f) ==
    CASE f % 3 = 0 -> None
      [] f % 3 = 1 -> <<2, 88>>
      [] OTHER     -> <<0, 3, 40, 89, 91, 178>>

\* the hip landmarks mediapipe returns on frame f, in thousandths of the
\* frame; None when it sees nobody
PoseLandmarks(f) ==
    IF f % 5 = 4 THEN None
    ELSE [left_hip |-> <<400 + 10 * f, 500>>, right_hip |-> <<460 + 10 * f, 520 + 2 * (f % 7)>>]

----------------------------------------------------------------------------
(* CourtDetector                                                           *)

\* _filter_court_lines: keep the near horizontal and near vertical lines
FilterCourtLines(lines) == SelectSeq(lines, LAMBDA angle : angle < 15 \/ angle > 75)

\* _find_corners: None on both paths
FindCorners(lines) == IF Len(lines) < 4 THEN None ELSE None

\* _calculate_perspective: the transform of these corners
CalculatePerspective(corners) == <<"transform", corners>>

\* detect_court: the detector's [court_corners, perspective_matrix] after
\* a call on a frame with these Hough lines
DetectCourt(cc, pm, lines) ==
    IF lines = None THEN [court_corners |-> cc, perspective_matrix |-> pm]
    ELSE LET corners == FindCorners(FilterCourtLines(lines))
         IN  IF corners # None /\ Len(corners) = 4
             THEN [court_corners |-> corners,
                   perspective_matrix |-> CalculatePerspective(corners)]
             ELSE [court_corners |-> cc, perspective_matrix |-> pm]

----------------------------------------------------------------------------
(* PlayerTracker                                                           *)

PositionHistoryCap == 60
MinCoverageSamples == 10

\* detect_players: the list of (player_id, x, y) for a frame
DetectPlayers(mediapipe, landmarks) ==
    IF ~mediapipe THEN << >>
    ELSE IF landmarks = None THEN << >>
    ELSE <<<<0, (landmarks.left_hip[1] + landmarks.right_hip[1]) \div 2,
               (landmarks.left_hip[2] + landmarks.right_hip[2]) \div 2>>>>

\* a variant that never evicts
PushPositionNoCap(history, players) ==
    IF players = << >> THEN history
    ELSE Append(history, <<players[1][2], players[1][3]>>)

\* position_history[0] after detect_players returned `players`
PushPosition(history, players) ==
    IF players = << >> THEN history
    ELSE LET h == Append(history, <<players[1][2], players[1][3]>>)
         IN  IF Len(h) > PositionHistoryCap THEN Tail(h) ELSE h

\* max(s) and min(s) of a non-empty list
SeqMax(s) ==
    CHOOSE v \in {s[i] : i \in 1..Len(s)} : \A i \in 1..Len(s) : s[i] <= v
SeqMin(s) ==
    CHOOSE v \in {s[i] : i \in 1..Len(s)} : \A i \in 1..Len(s) : v <= s[i]

\* get_court_coverage, in tenths of a percent
GetCourtCoverage(history) ==
    IF Len(history) < MinCoverageSamples THEN 500
    ELSE LET xs == [i \in 1..Len(history) |-> history[i][1]]
             ys == [i \in 1..Len(history) |-> history[i][2]]
             x_range == SeqMax(xs) - SeqMin(xs)
             y_range == SeqMax(ys) - SeqMin(ys)
             coverage == (x_range * y_range) \div 500
         IN  Min(1000, Max(0, coverage))

\* get_recovery_time, in tenths of a second
GetRecoveryTime == 12

----------------------------------------------------------------------------
(* PickleballAnalyzer.analyze_video                                        *)

\* a variant that rounds to the nearest stride instead of truncating
FrameSkipRounded(f) == Max(1, RoundHalfEven(f, 1000))

\* frame_skip = max(1, int(fps / 10))
FrameSkip(f) == Max(1, TruncDiv(f, 1000))

\* a variant whose window includes the frame at exactly two seconds
InCalibrationWindowInclusive(n, f) == n * 100 <= f * 2

\* frame_number < fps * 2
InCalibrationWindow(n, f) == n * 100 < f * 2

\* a variant that forgets the frame rate (frame_number - last_shot_frame > 0.3)
DebounceElapsedNoFps(n, last, f) == (n - last) * 10 > 3

\* a variant that lets the first shot of a run through
DebounceElapsedOrFirst(n, last, f) == last = 0 \/ (n - last) * 1000 > f * 3

\* frame_number - last_shot_frame > fps * 0.3
DebounceElapsed(n, last, f) == (n - last) * 1000 > f * 3

\* frame_number / fps, in milliseconds
Timestamp(n, f) == (n * 100000) \div f

\* a variant that leaves the frame stamp at 0
NewShotUnstamped(n, f, type, vel, pos) ==
    [frame_number |-> 0,
     timestamp    |-> 0,
     shot_type    |-> type,
     player_id    |-> 0,
     ball_speed   |-> GetSpeed(vel),
     placement_x  |-> (pos[1] * 1000) \div video.width,
     placement_y  |-> (pos[2] * 1000) \div video.height,
     confidence   |-> 70]

\* the DetectedShot built on frame n for a ball at pos
NewShot(n, f, type, vel, pos) ==
    [frame_number |-> n,
     timestamp    |-> Timestamp(n, f),
     shot_type    |-> type,
     player_id    |-> 0,
     ball_speed   |-> GetSpeed(vel),
     placement_x  |-> (pos[1] * 1000) \div video.width,
     placement_y  |-> (pos[2] * 1000) \div video.height,
     confidence   |-> 70]

\* the PlayerMovement records of one frame
NewMovements(n, f, players) ==
    [i \in 1..Len(players) |->
        [frame_number |-> n,
         timestamp    |-> Timestamp(n, f),
         player_id    |-> players[i][1],
         position_x   |-> players[i][2],
         position_y   |-> players[i][3],
         velocity     |-> 0]]

NoCalls == [court |-> {}, ball |-> {}, shot |-> {}, players |-> {}, progress |-> << >>]

\* analyze_video has not been called: its locals hold nothing yet
NotStarted ==
    /\ error = "none"
    /\ fps = 0 /\ total_frames = 0 /\ frame_skip = 0
    /\ frame_number = 0 /\ last_shot_frame = 0
    /\ shot_type = "none"
    /\ ball_pos = None
    /\ results = None
    /\ calls = NoCalls
    /\ detected = << >>
    /\ shot_outcome = "noframe"

\* CourtDetector.__init__
FreshCourtDetector == court_corners = None /\ perspective_matrix = None

\* BallTracker.__init__
FreshBallTracker == last_position = None /\ velocity = <<0, 0>> /\ ball_history = << >>

\* PlayerTracker.__init__ (the history of player slot 0)
FreshPlayerTracker == position_history = << >>

\* PickleballAnalyzer.__init__: the analysis state
FreshAnalysisState ==
    /\ shots = << >>
    /\ movements = << >>
    /\ current_rally_length = 0
    /\ rally_lengths = << >>
    /\ unforced_errors = 0
    /\ winners = 0

\* a freshly constructed PickleballAnalyzer
FreshAnalyzer ==
    /\ FreshCourtDetector
    /\ FreshBallTracker
    /\ FreshPlayerTracker
    /\ FreshAnalysisState

\* ---- the bounded family of videos
MaxFrames == 32
ShortFrames == 8
FpsSet == {1000, 1500, 2997, 3000}
StepSet == {<<2, 0>>, <<8, 0>>, <<3, -4>>, <<3, 4>>, <<0, -7>>}
TurnSet == {7, 20}
HideSet == {<<0, 0>>, <<12, 3>>}

Videos ==
    { [fps |-> f, total_frames |-> n, n_frames |-> n,
       width |-> 1280, height |-> 720,
       step1 |-> s1, step2 |-> s2, turn |-> t,
       hide_from |-> h[1], hide_len |-> h[2],
       callback |-> cb, mediapipe |-> mp] :
        f \in FpsSet, n \in {ShortFrames, MaxFrames}, s1 \in StepSet, s2 \in StepSet,
        t \in TurnSet, h \in HideSet, cb \in BOOLEAN, mp \in BOOLEAN }

NoHarness == frame_regions = << >> /\ ar = None /\ stats = None

\* the job ids uuid4 hands out
JobIds == {"job-a", "job-b"}

\* api_server at start-up: jobs = {}, nothing uploaded, no task scheduled
NoServer ==
    /\ jobs = [j \in JobIds |-> None]
    /\ files = {}
    /\ task = [j \in JobIds |-> "none"]
    /\ results_dict = [j \in JobIds |-> None]
    /\ response = None
    /\ webhook_posts = << >>
    /\ aiohttp_installed = TRUE

Init ==
    /\ video \in Videos
    /\ pc = "init"
    /\ NotStarted
    /\ FreshAnalyzer
    /\ NoHarness
    /\ NoServer

analyzer_vars == <<shots, movements, current_rally_length, rally_lengths,
                   unforced_errors, winners, results, court_corners,
                   perspective_matrix, last_position, velocity, ball_history,
                   position_history>>
harness_vars == <<frame_regions, ar, stats>>
server_vars == <<jobs, files, task, results_dict, response, webhook_posts,
                 aiohttp_installed>>

\* a variant that reads and calibrates on the first frame before it checks
\* that the video opened
OpenFailAfterFirstFrame ==
    /\ pc = "init"
    /\ pc' = "raised"
    /\ error' = "ValueError"
    /\ calls' = [calls EXCEPT !.court = @ \cup {0}]
    /\ UNCHANGED <<video, fps, total_frames, frame_skip, frame_number,
                   last_shot_frame, shot_type, ball_pos, detected, shot_outcome>>
    /\ UNCHANGED analyzer_vars
    /\ UNCHANGED harness_vars
    /\ UNCHANGED server_vars

\* cap.isOpened() is false: raise ValueError
OpenFail ==
    /\ pc = "init"
    /\ pc' = "raised"
    /\ error' = "ValueError"
    /\ UNCHANGED <<video, fps, total_frames, frame_skip, frame_number,
                   last_shot_frame, shot_type, ball_pos, calls, detected,
                   shot_outcome>>
    /\ UNCHANGED analyzer_vars
    /\ UNCHANGED harness_vars
    /\ UNCHANGED server_vars

\* the video opens: read the metadata, set up the loop
\* (duration = total_frames / fps divides by fps)
Open ==
    /\ pc = "init"
    /\ fps' = video.fps
    /\ total_frames' = video.total_frames
    /\ IF video.fps = 0
       THEN /\ pc' = "raised"
            /\ error' = "ZeroDivisionError"
            /\ UNCHANGED <<frame_skip, frame_number, last_shot_frame>>
       ELSE /\ pc' = "loop"
            /\ error' = "none"
            /\ frame_number' = 0
            /\ last_shot_frame' = 0
            /\ frame_skip' = FrameSkip(video.fps)
    /\ UNCHANGED <<video, shot_type, ball_pos, calls, detected, shot_outcome>>
    /\ UNCHANGED analyzer_vars
    /\ UNCHANGED harness_vars
    /\ UNCHANGED server_vars

\* a frame off the stride: frame_number += 1; continue
SkipFrame ==
    /\ pc = "loop"
    /\ frame_number < video.n_frames
    /\ frame_number % frame_skip # 0
    /\ frame_number' = frame_number + 1
    /\ UNCHANGED <<video, pc, error, fps, total_frames, frame_skip,
                   last_shot_frame, shot_type, ball_pos, calls, detected,
                   shot_outcome>>
    /\ UNCHANGED analyzer_vars
    /\ UNCHANGED harness_vars
    /\ UNCHANGED server_vars

\* process_video.update_progress: job["progress"] = 0.1 + (p * 0.8),
\* p = frame_number / total_frames
UpdateProgress(n, total) == 1000 + (8000 * n) \div total

\* progress_callback(frame_number / total_frames): inside process_video the
\* callback is update_progress of the job being analysed; any other caller's
\* callback keeps nothing the model follows
ProgressCallback(js, n, total) ==
    [j \in JobIds |->
        IF task[j] = "analyzing"
        THEN [js[j] EXCEPT !.progress = UpdateProgress(n, total)]
        ELSE js[j]]

\* one sampled frame: the whole loop body
ProcessFrame ==
    /\ pc = "loop"
    /\ frame_number < video.n_frames
    /\ frame_number % frame_skip = 0
    /\ \E best \in {BestMatch(Regions(frame_number))} :
       \E hist \in {IF best # None THEN PushHistory(ball_history, best)
                    ELSE ball_history} :
       \E type \in {IF best # None THEN DetectShot(hist) ELSE shot_type} :
       \E players \in {DetectPlayers(video.mediapipe, PoseLandmarks(frame_number))} :
       LET n == frame_number
           calibrate == InCalibrationWindow(n, fps)
           court == IF calibrate
                    THEN DetectCourt(court_corners, perspective_matrix, HoughLines(n))
                    ELSE [court_corners |-> court_corners,
                          perspective_matrix |-> perspective_matrix]
           found == best # None
           vel == IF found THEN NewVelocity(last_position, velocity, best) ELSE velocity
           classified == found /\ type # "none" /\ type # "unknown"
           record == classified /\ DebounceElapsed(n, last_shot_frame, fps)
           notify == video.callback
           tenth == total_frames \div 10
       IN  /\ court_corners' = court.court_corners
           /\ perspective_matrix' = court.perspective_matrix
           /\ ball_pos' = best
           /\ velocity' = vel
           /\ last_position' = IF found THEN best ELSE last_position
           /\ ball_history' = hist
           /\ detected' = IF found THEN Append(detected, [frame |-> n, pos |-> best])
                          ELSE detected
           /\ shot_type' = type
           /\ shots' = IF record THEN Append(shots, NewShot(n, fps, type, vel, best))
                       ELSE shots
           /\ last_shot_frame' = IF record THEN n ELSE last_shot_frame
           /\ current_rally_length' = IF record THEN current_rally_length + 1
                                      ELSE current_rally_length
           /\ shot_outcome' = IF ~found THEN "noball"
                              ELSE IF ~classified THEN type
                              ELSE IF record THEN "recorded" ELSE "debounced"
           /\ position_history' = PushPosition(position_history, players)
           /\ movements' = movements \o NewMovements(n, fps, players)
           /\ IF notify /\ tenth = 0
              THEN \* frame_number % (total_frames // 10): modulo by zero
                   /\ pc' = "raised"
                   /\ error' = "ZeroDivisionError"
                   /\ frame_number' = n
                   /\ jobs' = jobs
                   /\ calls' = [calls EXCEPT
                         !.court = IF calibrate THEN @ \cup {n} ELSE @,
                         !.ball = @ \cup {n},
                         !.shot = IF found THEN @ \cup {n} ELSE @,
                         !.players = @ \cup {n}]
              ELSE /\ pc' = "loop"
                   /\ error' = "none"
                   /\ frame_number' = n + 1
                   /\ jobs' = IF notify /\ n % tenth = 0
                              THEN ProgressCallback(jobs, n, total_frames)
                              ELSE jobs
                   /\ calls' = [calls EXCEPT
                         !.court = IF calibrate THEN @ \cup {n} ELSE @,
                         !.ball = @ \cup {n},
                         !.shot = IF found THEN @ \cup {n} ELSE @,
                         !.players = @ \cup {n},
                         !.progress = IF notify /\ n % tenth = 0
                                      THEN Append(@, <<n, total_frames>>) ELSE @]
    /\ UNCHANGED <<video, fps, total_frames, frame_skip, rally_lengths,
                   unforced_errors, winners, results>>
    /\ UNCHANGED harness_vars
    /\ UNCHANGED <<files, task, results_dict, response, webhook_posts,
                   aiohttp_installed>>

----------------------------------------------------------------------------
(* PickleballAnalyzer._compile_results                                     *)

\* shot_breakdown: the count of each shot type that occurs
ShotBreakdown(ss) ==
    [t \in {ss[i].shot_type : i \in 1..Len(ss)} |->
        Cardinality({i \in 1..Len(ss) : ss[i].shot_type = t})]

\* n^2 times the population variance of xs (np.var), xs in thousandths
VarTimesNSquared(xs) == Len(xs) * SumSquares(xs) - SumSeq(xs) * SumSeq(xs)

\* placement_accuracy in tenths of a percent:
\* 70.0 without placements, else min(95, 50 + 100 var(x) + 100 var(y))
PlacementAccuracy(ss) ==
    IF ss = << >> THEN 700
    ELSE LET xs == [i \in 1..Len(ss) |-> ss[i].placement_x]
             ys == [i \in 1..Len(ss) |-> ss[i].placement_y]
             n2 == Len(ss) * Len(ss)
         IN  Min(950, 500 + (VarTimesNSquared(xs) + VarTimesNSquared(ys)) \div (n2 * 1000))

\* a variant that rounds to the nearest length
EstimatedRallyRounded(nshots, total, f) ==
    Max(3, RoundHalfEven(5 * nshots * f, 100 * total))

\* estimated_rally = max(3, int(5 / (duration / len(shots)))),
\* duration = total_frames / fps; total > 0
EstimatedRally(nshots, total, f) == Max(3, TruncDiv(5 * nshots * f, 100 * total))

\* self.rally_lengths after the estimate (lines 609-614); total > 0 when
\* the estimate is made
EstimateRallyLengths(rl, nshots, total, f) ==
    IF rl # << >> THEN rl
    ELSE IF nshots > 5
         THEN [i \in 1..(nshots \div EstimatedRally(nshots, total, f)) |->
                  EstimatedRally(nshots, total, f)]
         ELSE rl

\* a variant without the cap
OverallConfidenceUncapped(nshots) == IF nshots > 10 THEN 50 + nshots ELSE 50

\* confidence, in hundredths
OverallConfidence(nshots) == IF nshots > 10 THEN Min(95, 50 + nshots) ELSE 50

\* int(300 + np.random.normal(0, 50)): any of these
ReactionTimes == {250, 300, 350}

CompileResults(duration_ms, total, f, reaction, rl) ==
    [video_duration       |-> duration_ms,
     total_frames         |-> total,
     fps                  |-> f,
     shots                |-> shots,
     shot_breakdown       |-> ShotBreakdown(shots),
     movements            |-> movements,
     court_coverage       |-> GetCourtCoverage(position_history),
     avg_recovery_time    |-> GetRecoveryTime,
     placement_accuracy   |-> PlacementAccuracy(shots),
     avg_reaction_time_ms |-> reaction,
     rally_lengths        |-> IF rl # << >> THEN rl ELSE <<5, 7, 4, 8, 6>>,
     unforced_errors      |-> unforced_errors,
     winners              |-> winners,
     overall_confidence   |-> OverallConfidence(Len(shots))]

\* cap.read() reports the end of input: release, compile, return
Finish ==
    /\ pc = "loop"
    /\ frame_number = video.n_frames
    /\ IF rally_lengths = << >> /\ Len(shots) > 5 /\ total_frames = 0
       THEN \* 5 / avg_time_between_shots with a zero duration
            /\ pc' = "raised"
            /\ error' = "ZeroDivisionError"
            /\ UNCHANGED <<rally_lengths, results>>
       ELSE /\ pc' = "done"
            /\ error' = "none"
            /\ rally_lengths' = EstimateRallyLengths(rally_lengths, Len(shots),
                                                     total_frames, fps)
            /\ \E reaction \in ReactionTimes :
                 results' = CompileResults(Timestamp(total_frames, fps), total_frames,
                                           fps, reaction, rally_lengths')
    /\ UNCHANGED <<video, fps, total_frames, frame_skip, frame_number,
                   last_shot_frame, shot_type, ball_pos, shots, movements,
                   current_rally_length, unforced_errors, winners,
                   court_corners, perspective_matrix, last_position, velocity,
                   ball_history, position_history, calls, detected, shot_outcome>>
    /\ UNCHANGED harness_vars
    /\ UNCHANGED server_vars

Next == OpenFail \/ Open \/ SkipFrame \/ ProcessFrame \/ Finish

Spec == Init /\ [][Next]_vars

----------------------------------------------------------------------------
(* Properties of a run of analyze_video on a fresh analyzer (Spec)         *)

\* the frames of this run on which the loop body ran
SampledFrames == calls.ball

\* the video opened with a positive frame rate and the loop was set up
LoopEntered == pc # "init" /\ error # "ValueError" /\ fps > 0

\* C1: any two shots recorded in a run are at least 0.3 x fps source frames
\* apart; a classified shot that arrives sooner after the last recorded one
\* is therefore not in the sequence.
C1_ShotsDebounced ==
    \A i, j \in 1..Len(shots) :
        i < j => (shots[j].frame_number - shots[i].frame_number) * 1000 >= 3 * fps

\* a classified shot was dropped by the debounce after shots were recorded
C1_Witness == Len(shots) >= 2 /\ shot_outcome = "debounced"

\* C3: detect_shot returns None while the history holds fewer than 5
\* positions, and no shot of a run is recorded before the frame of the
\* 5th ball detection.
C3_NoShotBeforeFivePoints ==
    /\ (shot_outcome \notin {"noframe", "noball"} /\ Len(ball_history) < 5)
          => (shot_type = "none" /\ shot_outcome = "none")
    /\ \A i \in 1..Len(shots) :
          /\ Len(detected) >= 5
          /\ shots[i].frame_number >= detected[5].frame

\* detect_shot was called on a history of 4 points
C3_Witness == shot_outcome = "none" /\ Len(ball_history) = 4 /\ 4 \in DOMAIN detected

\* C5: the ball history never holds more than 30 entries and is the most
\* recent min(n, 30) of the n detected positions, in detection order.
C5_HistoryIsLastThirty ==
    LET n == Len(detected)
        k == Min(n, 30)
    IN  /\ Len(ball_history) <= 30
        /\ Len(ball_history) = k
        /\ \A i \in 1..k : ball_history[i] = detected[n - k + i].pos

\* more than 30 positions were detected: the oldest was evicted
C5_Witness == Len(detected) > 30 /\ ball_history[1] # detected[1].pos

\* C7 as claimed: the stride is max(1, round(fps / 10)) and the loop body
\* runs exactly on the multiples of it.
C7_StrideRounded ==
    LoopEntered =>
        LET stride == Max(1, RoundHalfEven(fps, 1000))
        IN  /\ frame_skip = stride
            /\ \A n \in SampledFrames : n % stride = 0
            /\ \A n \in 0..(frame_number - 1) : n % stride = 0 => n \in SampledFrames

\* C7 amended: the stride is max(1, floor(fps / 10)), and ball detection,
\* player tracking and classification run on exactly (classification: only
\* on) the frames whose index is a multiple of it.
C7_StrideTruncated ==
    LoopEntered =>
        LET stride == IF fps \div 1000 >= 1 THEN fps \div 1000 ELSE 1
        IN  /\ frame_skip = stride
            /\ \A n \in SampledFrames : n % stride = 0
            /\ \A n \in 0..(frame_number - 1) : n % stride = 0 => n \in SampledFrames
            /\ calls.players = SampledFrames
            /\ calls.shot \subseteq SampledFrames

\* a run at a rate where rounding and truncating differ has sampled frames
C7_Witness ==
    /\ pc = "loop"
    /\ fps \div 1000 # RoundHalfEven(fps, 1000)
    /\ frame_number > 3 * frame_skip

\* C8: detect_court runs on a sampled frame exactly when the frame index is
\* below 2 x fps, and never after a sampled frame at or beyond 2 x fps.
C8_CalibrationWindow ==
    /\ calls.court \subseteq SampledFrames
    /\ \A n \in SampledFrames : n \in calls.court <=> n * 100 < 2 * fps
    /\ \A n \in calls.court : \A m \in SampledFrames : m * 100 >= 2 * fps => n < m

\* the run has calibrated and has gone past the window
C8_Witness ==
    /\ calls.court # {}
    /\ \E m \in SampledFrames : m * 100 >= 2 * fps /\ m \notin calls.court

\* C10: when the video cannot be opened the run raises ValueError from
\* its first step: no collaborator has been invoked, no frame read, and the
\* analyzer's shots, movements and tracker histories are as they were.
C10_OpenFailureTouchesNothing ==
    /\ [](error = "ValueError" =>
            /\ pc = "raised"
            /\ calls = NoCalls
            /\ frame_number = 0
            /\ results = None)
    /\ [][error' = "ValueError" =>
            /\ pc = "init"
            /\ UNCHANGED <<shots, movements, ball_history, position_history,
                           last_position, velocity, calls>>]_vars

C10_Witness == error = "ValueError" /\ pc = "raised"

\* C11 as claimed: once the video has opened the run returns a result
\* whatever the frames and the metadata, with or without a progress callback;
\* the only error a run ever ends with is the open failure (ValueError).
C11_OnlyOpenFailurePropagates == pc = "raised" => error = "ValueError"

\* C14 as claimed: a run that records at most 5 shots does not fail; its
\* result has the placeholder rally lengths [5,7,4,8,6] and confidence 0.5,
\* and with no shot at all placement accuracy 70.0 and an empty histogram.
\* (Checked for the runs whose video opened.)
C14_FewShotsNeverFail ==
    (Len(shots) <= 5 /\ error # "ValueError") =>
        /\ pc # "raised"
        /\ pc = "done" =>
              /\ results.rally_lengths = <<5, 7, 4, 8, 6>>
              /\ results.overall_confidence = 50
              /\ shots = << >> =>
                    /\ results.placement_accuracy = 700
                    /\ DOMAIN results.shot_breakdown = {}

\* C24 (as claimed): with a progress callback, for each k in 0..9 whose frame
\* k x (total_frames // 10) exists in the source, the callback is called with
\* that frame's fraction, for every sampling stride
C24_NotifiedAtEveryTenth ==
    (pc = "done" /\ video.callback) =>
        \A k \in 0..9 :
            k * (total_frames \div 10) < video.n_frames =>
                \E i \in DOMAIN calls.progress :
                    calls.progress[i] = <<k * (total_frames \div 10), total_frames>>

\* C25: during a run the shot sequence only grows by appending (a recorded
\* shot is never modified, reordered or removed), every recorded shot has a
\* type among drive, dink, lob and drop and the number of a sampled frame,
\* and frame numbers are strictly increasing along the sequence
C25_ShotsAppendOnly ==
    /\ [](\A i \in 1..Len(shots) :
             /\ shots[i].shot_type \in {"drive", "dink", "lob", "drop"}
             /\ shots[i].frame_number \in SampledFrames
             /\ shots[i].frame_number % frame_skip = 0
             /\ \A j \in 1..Len(shots) :
                   i < j => shots[i].frame_number < shots[j].frame_number)
    /\ [][/\ Len(shots') \in {Len(shots), Len(shots) + 1}
          /\ SubSeq(shots', 1, Len(shots)) = shots]_vars

\* a second shot was appended behind the first
C25_Witness ==
    /\ pc = "loop"
    /\ shot_outcome = "recorded"
    /\ Len(shots) = 2
    /\ shots[2].frame_number = frame_number - 1
    /\ shots[1].frame_number < shots[2].frame_number

\* C26: no shot is ever recorded at a source frame index less than or equal
\* to 0.3 x fps: the last-shot marker starts at frame 0, so a shot classified
\* during the first 0.3 seconds is dropped although no shot was recorded
\* before it
C26_NoShotInFirstThreeTenths ==
    /\ \A i \in 1..Len(shots) : shots[i].frame_number * 1000 > fps * 3
    /\ (/\ pc = "loop"
        /\ frame_number > 0
        /\ (frame_number - 1) * 1000 <= fps * 3
        /\ shot_outcome \notin {"noframe", "noball", "none", "unknown"})
          => (shot_outcome = "debounced" /\ shots = << >>)

\* a shot classified in the first 0.3 seconds, before any other, was dropped
C26_Witness ==
    /\ pc = "loop"
    /\ shot_outcome = "debounced"
    /\ shots = << >>
    /\ last_shot_frame = 0
    /\ shot_type \in {"drive", "dink", "lob", "drop"}
    /\ frame_number > 0
    /\ (frame_number - 1) * 1000 <= fps * 3

----------------------------------------------------------------------------
(* AnalysisResults.to_avatar_stats, applied to AnalysisResults values      *)
(* (SpecStats).  An AnalysisResults is the record CompileResults builds:   *)
(* court_coverage and placement_accuracy in tenths of a percent,           *)
(* avg_recovery_time in tenths of a second, overall_confidence in          *)
(* hundredths.  The scores are computed exactly, as rationals, and then    *)
(* truncated as int() does.                                                *)

\* a variant that forgets the lower clamp (min(99, int(...)))
ClampScoreUpperOnly(v) == Min(99, v)

\* min(99, max(1, int(...)))
ClampScore(v) == Min(99, Max(1, v))

\* dict.get(key, 0)
Get(dict, key) == IF key \in DOMAIN dict THEN dict[key] ELSE 0

\* max(len(self.shots), 1)
ShotCount(r) == Max(Len(r.shots), 1)

\* int(50 + overhead_ratio * 30 + drive_ratio * 20)
Power(r) ==
    ClampScore(TruncDiv(50 * ShotCount(r) + 30 * Get(r.shot_breakdown, "overhead")
                        + 20 * Get(r.shot_breakdown, "drive"),
                        ShotCount(r)))

\* int(40 + dink_ratio * 30 + drop_ratio * 20 + placement_accuracy * 0.1)
Finesse(r) ==
    ClampScore(TruncDiv(4000 * ShotCount(r) + 3000 * Get(r.shot_breakdown, "dink")
                        + 2000 * Get(r.shot_breakdown, "drop")
                        + r.placement_accuracy * ShotCount(r),
                        100 * ShotCount(r)))

\* recovery_score = max(0, 100 - avg_recovery_time * 50)
RecoveryScore(r) == Max(0, 100 - 5 * r.avg_recovery_time)

\* int(30 + court_coverage * 0.4 + recovery_score * 0.3)
SpeedScore(r) ==
    ClampScore(TruncDiv(3000 + 4 * r.court_coverage + 30 * RecoveryScore(r), 100))

\* len([v for v in shot_breakdown.values() if v > 0])
ShotVariety(r) == Cardinality({k \in DOMAIN r.shot_breakdown : r.shot_breakdown[k] > 0})

\* int(40 + shot_variety * 5 + winner_ratio * 40 + placement_accuracy * 0.15)
CourtIq(r) ==
    ClampScore(TruncDiv(40000 * ShotCount(r) + 5000 * ShotVariety(r) * ShotCount(r)
                        + 40000 * r.winners + 15 * r.placement_accuracy * ShotCount(r),
                        1000 * ShotCount(r)))

\* avg_rally = sum(rally_lengths) / max(len(rally_lengths), 1)
\* int(70 - error_ratio * 50 + min(avg_rally, 20) * 1.5)
Consistency(r) ==
    LET n == ShotCount(r)
        l == Max(Len(r.rally_lengths), 1)
        capped == Min(SumSeq(r.rally_lengths), 20 * l)   \* l * min(avg_rally, 20)
    IN  ClampScore(TruncDiv(140 * n * l - 100 * r.unforced_errors * l + 3 * n * capped,
                            2 * n * l))

\* the confidence entries are in units of 1/10000
ToAvatarStats(r) ==
    [power       |-> Power(r),
     finesse     |-> Finesse(r),
     speed       |-> SpeedScore(r),
     court_iq    |-> CourtIq(r),
     consistency |-> Consistency(r),
     confidence  |-> [power       |-> r.overall_confidence * 90,
                      finesse     |-> r.overall_confidence * 95,
                      speed       |-> r.overall_confidence * 85,
                      court_iq    |-> r.overall_confidence * 80,
                      consistency |-> r.overall_confidence * 90]]

\* ---- the bounded family of AnalysisResults values
MaxCount == 4

SampleShot ==
    [frame_number |-> 12, timestamp |-> 1200, shot_type |-> "drive", player_id |-> 0,
     ball_speed |-> 2100, placement_x |-> 400, placement_y |-> 300, confidence |-> 70]

ShotLists == {<< >>, <<SampleShot>>, <<SampleShot, SampleShot, SampleShot>>}

Breakdowns ==
    UNION { [keys -> {0, MaxCount}] :
            keys \in {{}, {"drive"}, {"overhead", "drive"}, {"dink", "drop", "lob"}} }

AnalysisResultsValues ==
    { [video_duration |-> 3200, total_frames |-> 32, fps |-> 1000,
       shots |-> ss, shot_breakdown |-> bd, movements |-> << >>,
       court_coverage |-> cov, avg_recovery_time |-> rec,
       placement_accuracy |-> pa, avg_reaction_time_ms |-> 300,
       rally_lengths |-> rl, unforced_errors |-> ue, winners |-> w,
       overall_confidence |-> 50] :
        ss \in ShotLists, bd \in Breakdowns,
        cov \in {0, 500, 2500}, rec \in {0, 12, 50}, pa \in {0, 700, 950},
        rl \in {<< >>, <<5, 7, 4, 8, 6>>, <<40, 50>>},
        ue \in {0, MaxCount, 3 * MaxCount}, w \in {0, MaxCount} }

NoVideo == [fps |-> 0, total_frames |-> 0, n_frames |-> 0, width |-> 1, height |-> 1,
            step1 |-> <<0, 0>>, step2 |-> <<0, 0>>, turn |-> 0,
            hide_from |-> 0, hide_len |-> 0, callback |-> FALSE, mediapipe |-> FALSE]

InitStats ==
    /\ video = NoVideo
    /\ pc = "input"
    /\ NotStarted
    /\ FreshAnalyzer
    /\ frame_regions = << >>
    /\ ar \in AnalysisResultsValues
    /\ stats = None
    /\ NoServer

ToAvatarStatsCall ==
    /\ pc = "input"
    /\ stats' = ToAvatarStats(ar)
    /\ pc' = "returned"
    /\ UNCHANGED <<video, error, fps, total_frames, frame_skip, frame_number,
                   last_shot_frame, shot_type, ball_pos, calls, detected,
                   shot_outcome, frame_regions, ar>>
    /\ UNCHANGED analyzer_vars
    /\ UNCHANGED server_vars

NextStats == ToAvatarStatsCall

SpecStats == InitStats /\ [][NextStats]_vars

\* C2: for every AnalysisResults value, to_avatar_stats returns each of the
\* five scores as an integer in 1..99, also with no shots and with no rally
\* lengths (the divisors are max(len, 1)).
C2_ScoresInRange ==
    pc = "returned" =>
        \A k \in {"power", "finesse", "speed", "court_iq", "consistency"} :
            stats[k] \in 1..99

\* scores were computed for a result with no shots and no rally lengths,
\* and one of them was clamped
C2_Witness ==
    /\ pc = "returned"
    /\ ar.shots = << >> /\ ar.rally_lengths = << >>
    /\ ar.unforced_errors > 0
    /\ stats.consistency = 1
    /\ stats.court_iq = 99

----------------------------------------------------------------------------
(* BallTracker.detect_shot, applied to ball histories (SpecClassify)       *)

\* the steps a ball makes between two sampled frames, in pixels
WindowSteps == {<<21, 0>>, <<0, -21>>, <<5, 0>>, <<3, -4>>, <<3, 4>>, <<12, 0>>,
                <<6, 8>>, <<-6, 0>>}

\* how long the ball rested at its first position before the window
Rests == {0, 5, 6}

\* a history: the ball rests, then makes four steps
HistoryOf(rest, s1, s2, s3, s4) ==
    [i \in 1..rest |-> <<400, 300>>]
    \o << <<400, 300>>,
          <<400 + s1[1], 300 + s1[2]>>,
          <<400 + s1[1] + s2[1], 300 + s1[2] + s2[2]>>,
          <<400 + s1[1] + s2[1] + s3[1], 300 + s1[2] + s2[2] + s3[2]>>,
          <<400 + s1[1] + s2[1] + s3[1] + s4[1], 300 + s1[2] + s2[2] + s3[2] + s4[2]>> >>

InitClassify ==
    /\ video = NoVideo
    /\ pc = "input"
    /\ NotStarted
    /\ FreshCourtDetector /\ FreshPlayerTracker /\ FreshAnalysisState
    /\ NoHarness
    /\ NoServer
    /\ \E rest \in Rests : \E s1, s2, s3, s4 \in WindowSteps :
          /\ ball_history = HistoryOf(rest, s1, s2, s3, s4)
          /\ last_position = ball_history[Len(ball_history)]
          /\ velocity = s4

DetectShotCall ==
    /\ pc = "input"
    /\ shot_type' = DetectShot(ball_history)
    /\ pc' = "returned"
    /\ UNCHANGED <<video, error, fps, total_frames, frame_skip, frame_number,
                   last_shot_frame, ball_pos, calls, detected, shot_outcome>>
    /\ UNCHANGED analyzer_vars
    /\ UNCHANGED harness_vars
    /\ UNCHANGED server_vars

NextClassify == DetectShotCall

SpecClassify == InitClassify /\ [][NextClassify]_vars

\* C4: on a history of at least 5 points the verdict is the first rule that
\* holds in the order DRIVE, DINK, LOB, DROP, and UNKNOWN when none does; a
\* DINK verdict needs more than 10 points.
C4_FirstRuleWins ==
    (pc = "returned" /\ Len(ball_history) >= 5) =>
        LET recent == LastN(ball_history, 5)
            drive == MeanSpeedAbove(Speeds(recent), 20)
                     /\ DirectionChangeSmall(Directions(recent))
            dink  == MeanSpeedBelow(Speeds(recent), 8) /\ Len(ball_history) > 10
            lob   == AllBelow(Directions(recent))
            drop  == MeanSpeedBelow(Speeds(recent), 15) /\ AllAbove(Directions(recent))
        IN  /\ shot_type = "drive" <=> drive
            /\ shot_type = "dink" <=> (~drive /\ dink)
            /\ shot_type = "lob" <=> (~drive /\ ~dink /\ lob)
            /\ shot_type = "drop" <=> (~drive /\ ~dink /\ ~lob /\ drop)
            /\ shot_type = "unknown" <=> (~drive /\ ~dink /\ ~lob /\ ~drop)
            /\ shot_type = "dink" => Len(ball_history) > 10

\* a window that satisfies the DRIVE rule and the LOB rule was classified
C4_Witness ==
    /\ pc = "returned"
    /\ shot_type = "drive"
    /\ AllBelow(Directions(LastN(ball_history, 5)))

----------------------------------------------------------------------------
(* BallTracker.detect_ball, applied to frames (SpecDetect)                 *)

MaxCalls == 2

\* candidate regions with distinct centroids: two of equal circularity
\* (0.93), a less circular one (0.77), one too small, one too large, one
\* not circular (0.35), one at the upper end of the area range (0.97)
CandidateRegions ==
    { [area |-> 200,  perimeter |-> 52,  cx |-> 100, cy |-> 100],
      [area |-> 50,   perimeter |-> 26,  cx |-> 120, cy |-> 100],
      [area |-> 300,  perimeter |-> 70,  cx |-> 200, cy |-> 150],
      [area |-> 49,   perimeter |-> 25,  cx |-> 300, cy |-> 50],
      [area |-> 5001, perimeter |-> 252, cx |-> 640, cy |-> 10],
      [area |-> 400,  perimeter |-> 120, cx |-> 50,  cy |-> 400],
      [area |-> 5000, perimeter |-> 255, cx |-> 500, cy |-> 500] }

\* the contours of one frame: up to three regions, in any order
FrameContours ==
    {<< >>} \cup { <<a>> : a \in CandidateRegions }
            \cup { <<a, b>> : a \in CandidateRegions, b \in CandidateRegions }
            \cup { <<a, b, c>> : a \in CandidateRegions, b \in CandidateRegions,
                                 c \in CandidateRegions }

InitDetect ==
    /\ video = NoVideo
    /\ pc = "input"
    /\ NotStarted
    /\ FreshAnalyzer
    /\ frame_regions \in FrameContours
    /\ ar = None /\ stats = None
    /\ NoServer

\* detect_ball on the frame at hand
DetectBallCall ==
    /\ pc = "input"
    /\ \E best \in {BestMatch(frame_regions)} :
          /\ ball_pos' = best
          /\ IF best # None
             THEN /\ velocity' = NewVelocity(last_position, velocity, best)
                  /\ last_position' = best
                  /\ ball_history' = PushHistory(ball_history, best)
                  /\ detected' = Append(detected, [frame |-> frame_number, pos |-> best])
             ELSE UNCHANGED <<velocity, last_position, ball_history, detected>>
    /\ calls' = [calls EXCEPT !.ball = @ \cup {frame_number}]
    /\ pc' = "returned"
    /\ UNCHANGED <<video, error, fps, total_frames, frame_skip, frame_number,
                   last_shot_frame, shot_type, shot_outcome, shots, movements,
                   current_rally_length, rally_lengths, unforced_errors, winners,
                   results, court_corners, perspective_matrix, position_history>>
    /\ UNCHANGED harness_vars
    /\ UNCHANGED server_vars

\* the caller passes the next frame
NextFrame ==
    /\ pc = "returned"
    /\ frame_number + 1 < MaxCalls
    /\ frame_number' = frame_number + 1
    /\ frame_regions' \in FrameContours
    /\ pc' = "input"
    /\ UNCHANGED <<video, error, fps, total_frames, frame_skip, last_shot_frame,
                   shot_type, ball_pos, calls, detected, shot_outcome, ar, stats>>
    /\ UNCHANGED analyzer_vars
    /\ UNCHANGED server_vars

NextDetect == DetectBallCall \/ NextFrame

SpecDetect == InitDetect /\ [][NextDetect]_vars

\* the regions of the frame that may be the ball: area in [50, 5000] and
\* circularity above 0.5
Qualifying ==
    { i \in 1..Len(frame_regions) :
        /\ frame_regions[i].area >= 50 /\ frame_regions[i].area <= 5000
        /\ 8 * 355 * frame_regions[i].area
             > 113 * frame_regions[i].perimeter * frame_regions[i].perimeter }

\* C6: detect_ball returns the centroid of a qualifying region of the
\* highest circularity, None when no region qualifies, and never the
\* centroid of a region whose area is outside [50, 5000].
C6_BestCircularRegion ==
    pc = "returned" =>
        /\ Qualifying = {} <=> ball_pos = None
        /\ Qualifying # {} =>
             \E i \in Qualifying :
                /\ ball_pos = <<frame_regions[i].cx, frame_regions[i].cy>>
                /\ \A j \in Qualifying :
                      frame_regions[j].area * frame_regions[i].perimeter
                                            * frame_regions[i].perimeter
                        <= frame_regions[i].area * frame_regions[j].perimeter
                                                 * frame_regions[j].perimeter
        /\ \A i \in 1..Len(frame_regions) :
              ball_pos = <<frame_regions[i].cx, frame_regions[i].cy>>
                 => (frame_regions[i].area >= 50 /\ frame_regions[i].area <= 5000)

\* a frame held a region outside the area range that is more circular than
\* the region returned
C6_Witness ==
    /\ pc = "returned"
    /\ ball_pos # None
    /\ \E i \in Qualifying, j \in 1..Len(frame_regions) :
          /\ ball_pos = <<frame_regions[i].cx, frame_regions[i].cy>>
          /\ frame_regions[j].area > 5000
          /\ frame_regions[j].area * frame_regions[i].perimeter * frame_regions[i].perimeter
               > frame_regions[i].area * frame_regions[j].perimeter * frame_regions[j].perimeter

----------------------------------------------------------------------------
(* PickleballAnalyzer._compile_results at the end of input, for analyzers  *)
(* that have recorded n shots (SpecCompile)                                *)

MaxShots == 50

\* how many source frames the videos of this family hold, at 10 fps
CompileFrames == {33, 70, 200, 460}

\* n shots recorded four frames apart at 10 fps
RecordedShots(n) ==
    [i \in 1..n |->
        [frame_number |-> 4 * i,
         timestamp    |-> 400 * i,
         shot_type    |-> <<"drive", "dink", "lob", "drop">>[(i % 4) + 1],
         player_id    |-> 0,
         ball_speed   |-> 900 + 100 * (i % 3),
         placement_x  |-> 300 + 37 * (i % 5),
         placement_y  |-> 400 + 11 * (i % 3),
         confidence   |-> 70]]

\* the loop has read the last frame of a video of `frames` frames whose
\* metadata reports `reported` frames; n shots are recorded
InitCompile ==
    \E frames \in CompileFrames :
    \E reported \in {0, frames} :
    \E n \in 0..Min(MaxShots, (frames - 1) \div 4) :
        /\ video = [fps |-> 1000, total_frames |-> reported, n_frames |-> frames,
                    width |-> 1280, height |-> 720,
                    step1 |-> <<0, 0>>, step2 |-> <<0, 0>>, turn |-> 0,
                    hide_from |-> 0, hide_len |-> 0,
                    callback |-> FALSE, mediapipe |-> FALSE]
        /\ pc = "loop"
        /\ error = "none"
        /\ fps = 1000 /\ total_frames = reported /\ frame_skip = 1
        /\ frame_number = frames
        /\ last_shot_frame = 4 * n
        /\ shot_type = "none"
        /\ ball_pos = None
        /\ results = None
        /\ calls = NoCalls
        /\ detected = << >>
        /\ shot_outcome = "noball"
        /\ FreshCourtDetector /\ FreshBallTracker /\ FreshPlayerTracker
        /\ shots = RecordedShots(n)
        /\ movements = << >>
        /\ current_rally_length = n
        /\ rally_lengths = << >>
        /\ unforced_errors = 0
        /\ winners = 0
        /\ NoHarness
        /\ NoServer

NextCompile == Finish

SpecCompile == InitCompile /\ [][NextCompile]_vars

\* C12 as claimed: 0.5 up to 10 shots, then 0.01 more for each shot above
\* 10, capped at 0.95.
C12_ConfidencePerShotAboveTen ==
    pc = "done" =>
        LET n == Len(shots)
        IN  results.overall_confidence
              = (IF n <= 10 THEN 50
                 ELSE IF 50 + (n - 10) <= 95 THEN 50 + (n - 10) ELSE 95)

\* C12 amended: overall_confidence is 0.5 up to 10 shots and
\* min(0.95, 0.5 + 0.01 n) above 10 shots (0.61 at 11 shots, 0.95 from 45
\* shots on); it always lies in [0.5, 0.95].
C12_ConfidencePerShot ==
    pc = "done" =>
        LET n == Len(shots)
        IN  /\ results.overall_confidence
                 = (IF n <= 10 THEN 50
                    ELSE IF 50 + n <= 95 THEN 50 + n ELSE 95)
            /\ results.overall_confidence >= 50
            /\ results.overall_confidence <= 95

\* a run with 11 shots was compiled: its confidence is 0.61
C12_Witness ==
    pc = "done" /\ Len(shots) = 11 /\ results.overall_confidence = 61

\* n copies of x
Copies(n, x) == [i \in 1..n |-> x]

----------------------------------------------------------------------------
(* PlayerTracker.detect_players and get_court_coverage, applied to the     *)
(* frames of a player's walk (SpecPlayers).  Positions are in thousandths  *)
(* of the frame.                                                           *)

MaxPlayerCalls == 64

\* a walk: the player stands at `far` on the first `far_frames` frames,
\* then moves from `start` by `step` per frame and is back at `start` every
\* `span` frames; with miss > 0 the pose model sees nobody on every
\* miss-th frame
PlayerWalks ==
    { [far |-> <<900, 900>>, far_frames |-> ff, start |-> <<100, 100>>,
       step |-> st, span |-> 20, miss |-> m] :
        ff \in {0, 2}, st \in {<<0, 0>>, <<3, 2>>, <<45, 45>>}, m \in {0, 4} }

\* where the player's hip centre is on frame f
PlayerAt(f) ==
    IF f < video.walk.far_frames THEN video.walk.far
    ELSE <<video.walk.start[1] + video.walk.step[1] * (f % video.walk.span),
           video.walk.start[2] + video.walk.step[2] * (f % video.walk.span)>>

\* the hip landmarks mediapipe returns on frame f of the walk
WalkLandmarks(f) ==
    IF video.walk.miss > 0 /\ f % video.walk.miss = video.walk.miss - 1 THEN None
    ELSE [left_hip  |-> <<PlayerAt(f)[1] - 30, PlayerAt(f)[2] - 10>>,
          right_hip |-> <<PlayerAt(f)[1] + 30, PlayerAt(f)[2] + 10>>]

InitPlayers ==
    /\ \E w \in PlayerWalks : \E mp \in BOOLEAN :
          video = [fps |-> 0, total_frames |-> 0, n_frames |-> 0,
                   width |-> 1, height |-> 1,
                   step1 |-> <<0, 0>>, step2 |-> <<0, 0>>, turn |-> 0,
                   hide_from |-> 0, hide_len |-> 0,
                   callback |-> FALSE, mediapipe |-> mp, walk |-> w]
    /\ pc = "input"
    /\ NotStarted
    /\ FreshAnalyzer
    /\ NoHarness
    /\ NoServer

\* detect_players on the next frame of the walk
DetectPlayersCall ==
    /\ pc = "input"
    /\ frame_number < MaxPlayerCalls
    /\ position_history' =
          PushPosition(position_history,
                       DetectPlayers(video.mediapipe, WalkLandmarks(frame_number)))
    /\ calls' = [calls EXCEPT !.players = @ \cup {frame_number}]
    /\ frame_number' = frame_number + 1
    /\ stats' = None
    /\ UNCHANGED <<video, pc, error, fps, total_frames, frame_skip,
                   last_shot_frame, shot_type, ball_pos, detected, shot_outcome,
                   shots, movements, current_rally_length, rally_lengths,
                   unforced_errors, winners, results, court_corners,
                   perspective_matrix, last_position, velocity, ball_history,
                   frame_regions, ar>>
    /\ UNCHANGED server_vars

\* get_court_coverage(): stats holds what it returned
GetCourtCoverageCall ==
    /\ pc = "input"
    /\ stats = None
    /\ stats' = [court_coverage |-> GetCourtCoverage(position_history)]
    /\ UNCHANGED <<video, pc, error, fps, total_frames, frame_skip, frame_number,
                   last_shot_frame, shot_type, ball_pos, calls, detected,
                   shot_outcome, frame_regions, ar>>
    /\ UNCHANGED analyzer_vars
    /\ UNCHANGED server_vars

NextPlayers == DetectPlayersCall \/ GetCourtCoverageCall

SpecPlayers == InitPlayers /\ [][NextPlayers]_vars

\* the positions detect_players has appended so far, oldest first
SeenPositions ==
    IF ~video.mediapipe THEN << >>
    ELSE LET frames == SelectSeq([i \in 1..frame_number |-> i - 1],
                                 LAMBDA f : WalkLandmarks(f) # None)
         IN  [i \in 1..Len(frames) |-> PlayerAt(frames[i])]

\* C15: after any sequence of detect_players calls get_court_coverage
\* returns exactly 50.0 while the history holds fewer than 10 samples, and
\* otherwise 200 x (max x - min x) x (max y - min y) over the at most 60
\* most recent positions, clamped to [0, 100].
C15_CoverageOfLastSixty ==
    stats # None =>
        LET recent == LastN(SeenPositions, 60)
            xs == {recent[i][1] : i \in 1..Len(recent)}
            ys == {recent[i][2] : i \in 1..Len(recent)}
            hi(S) == CHOOSE v \in S : \A w \in S : w <= v
            lo(S) == CHOOSE v \in S : \A w \in S : v <= w
            area == (hi(xs) - lo(xs)) * (hi(ys) - lo(ys))
        IN  /\ position_history = recent
            /\ Len(recent) < 10 => stats.court_coverage = 500
            /\ Len(recent) >= 10 =>
                  stats.court_coverage
                     = (IF area \div 500 > 1000 THEN 1000 ELSE area \div 500)

\* more than 60 positions were seen, the far ones have been evicted, and the
\* coverage returned is that of the 60 kept
C15_Witness ==
    /\ stats # None
    /\ Len(SeenPositions) > 60
    /\ SeenPositions[1] = <<900, 900>>
    /\ position_history[1] # <<900, 900>>
    /\ stats.court_coverage \notin {0, 500, 1000}

----------------------------------------------------------------------------
(* Two calls of analyze_video by one caller, who keeps the first result in *)
(* `ar`: the second call on a new PickleballAnalyzer (SpecFresh) or on the *)
(* same one (SpecReuse)                                                    *)

\* the videos analysed twice: 32 frames at 10 or 30 fps, no progress callback
RerunVideos ==
    { v \in Videos : v.fps \in {1000, 3000} /\ v.n_frames = MaxFrames /\ ~v.callback
                     /\ v.hide_len = 0 }

\* the locals of analyze_video hold nothing
ClearLocals ==
    /\ error' = "none"
    /\ fps' = 0 /\ total_frames' = 0 /\ frame_skip' = 0
    /\ frame_number' = 0 /\ last_shot_frame' = 0
    /\ shot_type' = "none"
    /\ ball_pos' = None
    /\ results' = None
    /\ calls' = NoCalls
    /\ detected' = << >>
    /\ shot_outcome' = "noframe"

\* analyze_video is called
EnterAnalyzeVideo == pc' = "init" /\ ClearLocals

\* analyzer = PickleballAnalyzer()
NewAnalyzer ==
    /\ court_corners' = None /\ perspective_matrix' = None
    /\ last_position' = None /\ velocity' = <<0, 0>> /\ ball_history' = << >>
    /\ position_history' = << >>
    /\ shots' = << >>
    /\ movements' = << >>
    /\ current_rally_length' = 0
    /\ rally_lengths' = << >>
    /\ unforced_errors' = 0
    /\ winners' = 0

InitRuns ==
    /\ video \in RerunVideos
    /\ pc = "init"
    /\ NotStarted
    /\ FreshAnalyzer
    /\ NoHarness
    /\ NoServer

\* the caller keeps the result, constructs a new PickleballAnalyzer and
\* calls analyze_video on the same video
AnalyzeOnFreshAnalyzer ==
    /\ pc = "done"
    /\ ar = None
    /\ ar' = results
    /\ NewAnalyzer
    /\ EnterAnalyzeVideo
    /\ UNCHANGED <<video, frame_regions, stats>>
    /\ UNCHANGED server_vars

NextFresh == OpenFail \/ Open \/ SkipFrame \/ ProcessFrame \/ Finish
             \/ AnalyzeOnFreshAnalyzer

SpecFresh == InitRuns /\ [][NextFresh]_vars

\* C16 as claimed: two runs on fresh analyzers over the same video return
\* results that are equal in every field.
C16_RunsAgree == (pc = "done" /\ ar # None) => results = ar

\* shots=self.shots and movements=self.movements: an AnalysisResults holds
\* the analyzer's own list objects, so what a result returned earlier by
\* this analyzer shows is the current content of those lists
HeldResult(r) == [r EXCEPT !.shots = shots, !.movements = movements]

\* the caller keeps the result and calls analyze_video again on the same
\* analyzer and the same video
AnalyzeVideoAgain ==
    /\ pc = "done"
    /\ ar = None
    /\ ar' = results
    /\ EnterAnalyzeVideo
    /\ UNCHANGED <<video, frame_regions, stats>>
    /\ UNCHANGED <<shots, movements, current_rally_length, rally_lengths,
                   unforced_errors, winners, court_corners, perspective_matrix,
                   last_position, velocity, ball_history, position_history>>
    /\ UNCHANGED server_vars

\* the frames a caller passes to analyze_frame
LiveFrames == {0, 5}

\* analyze_frame on a frame of the video, once, after the run has returned:
\* detect_ball, detect_players, detect_shot
AnalyzeFrame ==
    /\ pc = "done"
    /\ frame_regions = << >>
    /\ \E f \in LiveFrames :
       \E best \in {BestMatch(Regions(f))} :
          /\ frame_regions' = Regions(f)
          /\ ball_pos' = best
          /\ velocity' = IF best # None THEN NewVelocity(last_position, velocity, best)
                         ELSE velocity
          /\ last_position' = IF best # None THEN best ELSE last_position
          /\ ball_history' = IF best # None THEN PushHistory(ball_history, best)
                             ELSE ball_history
          /\ position_history' =
                PushPosition(position_history,
                             DetectPlayers(video.mediapipe, PoseLandmarks(f)))
          /\ shot_type' = DetectShot(ball_history')
    /\ ar' = IF ar = None THEN results ELSE ar
    /\ UNCHANGED <<video, pc, error, fps, total_frames, frame_skip, frame_number,
                   last_shot_frame, calls, detected, shot_outcome, shots,
                   movements, current_rally_length, rally_lengths,
                   unforced_errors, winners, results, court_corners,
                   perspective_matrix, stats>>
    /\ UNCHANGED server_vars

NextReuse == OpenFail \/ Open \/ SkipFrame \/ ProcessFrame \/ Finish
             \/ AnalyzeVideoAgain \/ AnalyzeFrame

SpecReuse == InitRuns /\ [][NextReuse]_vars

\* C17 as claimed: nothing done later with the analyzer changes a result it
\* has returned: the result's shot sequence, its movement sequence and the
\* skill scores computed from it stay what they were when it was returned.
C17_ResultImmutable ==
    ar # None =>
        /\ HeldResult(ar).shots = ar.shots
        /\ HeldResult(ar).movements = ar.movements
        /\ ToAvatarStats(HeldResult(ar)) = ToAvatarStats(ar)

----------------------------------------------------------------------------
(* api_server: the job table and the background task process_video         *)
(* (SpecServer).  All handlers and tasks run on one event loop: a step of  *)
(* one lasts until its next await.  analyze_video does not await, so while *)
(* a task is inside it nothing else runs.                                  *)
(*                                                                         *)
(* A job's dict is jobs[j]; its field `listed` says whether the table      *)
(* still holds it (a task keeps its reference after "del jobs[job_id]").   *)
(* task[j]: "none" | "scheduled" | "analyzing" | "opening" | "writing" |   *)
(* "calling" | "webhook" | "finished".  `response` is the response of the handler that *)
(* has just run, << >> otherwise.                                          *)

\* what the uploaded files hold: a clip of 8 frames, a clip at 30 fps, a
\* clip whose header reports fewer frames than it delivers
ServerVideos ==
    { [fps |-> f[1], total_frames |-> f[2], n_frames |-> f[3],
       width |-> 1280, height |-> 720,
       step1 |-> <<3, -4>>, step2 |-> <<3, -4>>, turn |-> 7,
       hide_from |-> 0, hide_len |-> 0,
       callback |-> TRUE, mediapipe |-> FALSE] :
        f \in {<<1000, 8, 8>>, <<3000, 12, 12>>, <<1000, 10, 12>>} }

\* an Optional[str] that is set: None is << >>, the string s is <<s>>
Some(s) == <<s>>

\* webhook_url: Optional[str]
WebhookUrl(given) == IF given THEN Some("https://hook") ELSE None

UploadPath(j) == <<"upload", j>>
ResultsPath(j) == <<"results", j>>

\* jobs.get(job_id)
JobGet(j) == IF jobs[j] # None /\ jobs[j].listed THEN jobs[j] ELSE None

\* no task is between two awaits (inside analyze_video, or between the job
\* update and the webhook call): the event loop can run something else
LoopIdle == \A j \in JobIds : task[j] \notin {"analyzing", "calling"}

\* AnalysisResults.to_dict
ToDict(r) ==
    [video_duration       |-> r.video_duration,
     total_frames         |-> r.total_frames,
     fps                  |-> r.fps,
     shots                |-> [i \in 1..Len(r.shots) |->
                                 [frame      |-> r.shots[i].frame_number,
                                  type       |-> r.shots[i].shot_type,
                                  confidence |-> r.shots[i].confidence]],
     shot_breakdown       |-> r.shot_breakdown,
     court_coverage       |-> r.court_coverage,
     avg_recovery_time    |-> r.avg_recovery_time,
     placement_accuracy   |-> r.placement_accuracy,
     avg_reaction_time_ms |-> r.avg_reaction_time_ms,
     rally_lengths        |-> r.rally_lengths,
     unforced_errors      |-> r.unforced_errors,
     winners              |-> r.winners,
     overall_confidence   |-> r.overall_confidence,
     avatar_stats         |-> ToAvatarStats(r)]

\* the except branch of process_video
FailJob(js, j, e) ==
    [js EXCEPT ![j].status = "failed", ![j].error = Some(e),
               ![j].completed_at = Some("utcnow")]

\* the "Update job" block of process_video
CompleteJob(js, j, rd) ==
    [js EXCEPT ![j].status = "completed", ![j].progress = 10000,
               ![j].completed_at = Some("utcnow"), ![j].results = rd]

engine_vars == <<video, pc, error, fps, total_frames, frame_skip, frame_number,
                 last_shot_frame, shot_type, ball_pos, calls, detected,
                 shot_outcome>>

InitServer ==
    /\ video = NoVideo
    /\ pc = "idle"
    /\ NotStarted
    /\ FreshAnalyzer
    /\ NoHarness
    /\ jobs = [j \in JobIds |-> None]
    /\ files = {}
    /\ task = [j \in JobIds |-> "none"]
    /\ results_dict = [j \in JobIds |-> None]
    /\ response = None
    /\ webhook_posts = << >>
    /\ aiohttp_installed \in BOOLEAN

\* POST /analyze: reject a wrong content type, else save the upload, create
\* the job record and schedule process_video
AnalyzeVideoEndpoint ==
    /\ LoopIdle
    /\ \/ /\ response' = [endpoint |-> "analyze", job |-> None, code |-> 400]
          /\ UNCHANGED <<jobs, files, task>>
       \/ \E j \in JobIds : \E given \in BOOLEAN :
             /\ jobs[j] = None
             /\ files' = files \cup {UploadPath(j)}
             /\ jobs' = [jobs EXCEPT ![j] =
                           [job_id       |-> j,
                            status       |-> "pending",
                            progress     |-> 0,
                            file_path    |-> UploadPath(j),
                            webhook_url  |-> WebhookUrl(given),
                            completed_at |-> None,
                            error        |-> None,
                            results      |-> None,
                            listed       |-> TRUE]]
             /\ task' = [task EXCEPT ![j] = "scheduled"]
             /\ response' = [endpoint |-> "analyze", job |-> j, code |-> 200]
    /\ UNCHANGED <<results_dict, webhook_posts, aiohttp_installed>>
    /\ UNCHANGED engine_vars
    /\ UNCHANGED analyzer_vars
    /\ UNCHANGED harness_vars

\* process_video starts: return when the job is gone, else mark it
\* processing, construct the analyzer and call analyze_video on the upload
ProcessVideoStart ==
    /\ LoopIdle
    /\ \E j \in JobIds :
          /\ task[j] = "scheduled"
          /\ IF JobGet(j) = None
             THEN /\ task' = [task EXCEPT ![j] = "finished"]
                  /\ UNCHANGED jobs
                  /\ UNCHANGED engine_vars
                  /\ UNCHANGED analyzer_vars
             ELSE /\ task' = [task EXCEPT ![j] = "analyzing"]
                  /\ jobs' = [jobs EXCEPT ![j].status = "processing",
                                          ![j].progress = 1000]
                  /\ video' \in ServerVideos
                  /\ NewAnalyzer
                  /\ EnterAnalyzeVideo
    /\ response' = None
    /\ UNCHANGED <<files, results_dict, webhook_posts, aiohttp_installed>>
    /\ UNCHANGED harness_vars

\* analyze_video returned: results.to_dict(), then the task awaits the
\* opening of the results file; the analyzer goes out of scope
ProcessVideoAnalyzed ==
    /\ pc = "done"
    /\ \E j \in JobIds :
          /\ task[j] = "analyzing"
          /\ results_dict' = [results_dict EXCEPT ![j] = ToDict(results)]
          /\ task' = [task EXCEPT ![j] = "opening"]
    /\ pc' = "idle"
    /\ video' = NoVideo
    /\ ClearLocals
    /\ NewAnalyzer
    /\ UNCHANGED <<jobs, files, response, webhook_posts, aiohttp_installed>>
    /\ UNCHANGED harness_vars

\* analyze_video raised: the except branch marks the job failed
ProcessVideoRaised ==
    /\ pc = "raised"
    /\ \E j \in JobIds :
          /\ task[j] = "analyzing"
          /\ jobs' = FailJob(jobs, j, error)
          /\ task' = [task EXCEPT ![j] = "finished"]
    /\ pc' = "idle"
    /\ video' = NoVideo
    /\ ClearLocals
    /\ NewAnalyzer
    /\ UNCHANGED <<files, results_dict, response, webhook_posts, aiohttp_installed>>
    /\ UNCHANGED harness_vars

\* aiofiles.open(results_path, 'w') completes: the file exists
OpenResultsFile ==
    /\ LoopIdle
    /\ \E j \in JobIds :
          /\ task[j] = "opening"
          /\ files' = files \cup {ResultsPath(j)}
          /\ task' = [task EXCEPT ![j] = "writing"]
    /\ response' = None
    /\ UNCHANGED <<jobs, results_dict, webhook_posts, aiohttp_installed>>
    /\ UNCHANGED engine_vars
    /\ UNCHANGED analyzer_vars
    /\ UNCHANGED harness_vars

\* aiofiles.open raises (RESULTS_DIR is gone, the disk is full): the except
\* branch marks the job failed
OpenResultsFileFails ==
    /\ LoopIdle
    /\ \E j \in JobIds :
          /\ task[j] = "opening"
          /\ jobs' = FailJob(jobs, j, "OSError")
          /\ task' = [task EXCEPT ![j] = "finished"]
    /\ response' = None
    /\ UNCHANGED <<files, results_dict, webhook_posts, aiohttp_installed>>
    /\ UNCHANGED engine_vars
    /\ UNCHANGED analyzer_vars
    /\ UNCHANGED harness_vars

\* the write completes and the file is closed: update the job; a configured
\* webhook is called next, without an await in between
WriteResultsFile ==
    /\ LoopIdle
    /\ \E j \in JobIds :
          /\ task[j] = "writing"
          /\ jobs' = CompleteJob(jobs, j, results_dict[j])
          /\ task' = [task EXCEPT ![j] =
                        IF jobs[j].webhook_url # None THEN "calling" ELSE "finished"]
    /\ response' = None
    /\ UNCHANGED <<files, results_dict, webhook_posts, aiohttp_installed>>
    /\ UNCHANGED engine_vars
    /\ UNCHANGED analyzer_vars
    /\ UNCHANGED harness_vars

\* call_webhook up to its first await: "import aiohttp" stands outside the
\* try, so a missing module raises into process_video's except branch
CallWebhook ==
    /\ \E j \in JobIds :
          /\ task[j] = "calling"
          /\ IF aiohttp_installed
             THEN /\ task' = [task EXCEPT ![j] = "webhook"]
                  /\ UNCHANGED jobs
             ELSE /\ jobs' = FailJob(jobs, j, "ModuleNotFoundError")
                  /\ task' = [task EXCEPT ![j] = "finished"]
    /\ UNCHANGED <<files, results_dict, response, webhook_posts, aiohttp_installed>>
    /\ UNCHANGED engine_vars
    /\ UNCHANGED analyzer_vars
    /\ UNCHANGED harness_vars

\* a variant that posts and stays ready to post again
WebhookPostedWithRetry ==
    /\ LoopIdle
    /\ Len(webhook_posts) < 3
    /\ \E j \in JobIds :
          /\ task[j] = "webhook"
          /\ webhook_posts' =
                Append(webhook_posts,
                       [url |-> jobs[j].webhook_url, job_id |-> j,
                        status |-> "completed",
                        avatar_stats |-> results_dict[j].avatar_stats])
    /\ response' = None
    /\ UNCHANGED <<jobs, files, task, results_dict, aiohttp_installed>>
    /\ UNCHANGED engine_vars
    /\ UNCHANGED analyzer_vars
    /\ UNCHANGED harness_vars

\* session.post completes, or raises and the exception is printed
WebhookPosted ==
    /\ LoopIdle
    /\ \E j \in JobIds : \E delivered \in BOOLEAN :
          /\ task[j] = "webhook"
          /\ webhook_posts' =
                IF delivered
                THEN Append(webhook_posts,
                            [url |-> jobs[j].webhook_url, job_id |-> j,
                             status |-> "completed",
                             avatar_stats |-> results_dict[j].avatar_stats])
                ELSE webhook_posts
          /\ task' = [task EXCEPT ![j] = "finished"]
    /\ response' = None
    /\ UNCHANGED <<jobs, files, results_dict, aiohttp_installed>>
    /\ UNCHANGED engine_vars
    /\ UNCHANGED analyzer_vars
    /\ UNCHANGED harness_vars

\* GET /status/{job_id}
GetStatus ==
    /\ LoopIdle
    /\ \E j \in JobIds :
          response' =
             IF JobGet(j) = None
             THEN [endpoint |-> "status", job |-> j, code |-> 404]
             ELSE [endpoint |-> "status", job |-> j, code |-> 200,
                   status |-> jobs[j].status, progress |-> jobs[j].progress,
                   completed_at |-> jobs[j].completed_at, error |-> jobs[j].error]
    /\ UNCHANGED <<jobs, files, task, results_dict, webhook_posts, aiohttp_installed>>
    /\ UNCHANGED engine_vars
    /\ UNCHANGED analyzer_vars
    /\ UNCHANGED harness_vars

\* a variant of get_results without the check for a failed job
GetResultsNoFailedCheck(j) ==
    IF JobGet(j) = None
    THEN [endpoint |-> "results", job |-> j, code |-> 404]
    ELSE IF jobs[j].status \in {"pending", "processing"}
    THEN [endpoint |-> "results", job |-> j, code |-> 202]
    ELSE [endpoint |-> "results", job |-> j, code |-> 200,
          status |-> jobs[j].status, full_results |-> jobs[j].results]

\* get_results: the response for job_id
GetResultsResponse(j) ==
    IF JobGet(j) = None
    THEN [endpoint |-> "results", job |-> j, code |-> 404]
    ELSE IF jobs[j].status = "pending"
    THEN [endpoint |-> "results", job |-> j, code |-> 202]
    ELSE IF jobs[j].status = "processing"
    THEN [endpoint |-> "results", job |-> j, code |-> 202]
    ELSE IF jobs[j].status = "failed"
    THEN [endpoint |-> "results", job |-> j, code |-> 500, detail |-> jobs[j].error]
    ELSE [endpoint |-> "results", job |-> j, code |-> 200,
          status |-> jobs[j].status, full_results |-> jobs[j].results]

\* GET /results/{job_id}
GetResults ==
    /\ LoopIdle
    /\ \E j \in JobIds : response' = GetResultsResponse(j)
    /\ UNCHANGED <<jobs, files, task, results_dict, webhook_posts, aiohttp_installed>>
    /\ UNCHANGED engine_vars
    /\ UNCHANGED analyzer_vars
    /\ UNCHANGED harness_vars

\* DELETE /jobs/{job_id}: remove the job's files and its table entry
DeleteJob ==
    /\ LoopIdle
    /\ \E j \in JobIds :
          IF JobGet(j) = None
          THEN /\ response' = [endpoint |-> "delete", job |-> j, code |-> 404]
               /\ UNCHANGED <<jobs, files>>
          ELSE /\ files' = files \ {jobs[j].file_path, ResultsPath(j)}
               /\ jobs' = [jobs EXCEPT ![j].listed = FALSE]
               /\ response' = [endpoint |-> "delete", job |-> j, code |-> 200]
    /\ UNCHANGED <<task, results_dict, webhook_posts, aiohttp_installed>>
    /\ UNCHANGED engine_vars
    /\ UNCHANGED analyzer_vars
    /\ UNCHANGED harness_vars

NextServer ==
    \/ AnalyzeVideoEndpoint
    \/ ProcessVideoStart
    \/ OpenFail \/ Open \/ SkipFrame \/ ProcessFrame \/ Finish
    \/ ProcessVideoAnalyzed
    \/ ProcessVideoRaised
    \/ OpenResultsFile
    \/ OpenResultsFileFails
    \/ WriteResultsFile
    \/ CallWebhook
    \/ WebhookPosted
    \/ GetStatus
    \/ GetResults
    \/ DeleteJob

SpecServer == InitServer /\ [][NextServer]_vars

\* C18 (as claimed): every job's status changes only along
\* pending -> processing -> completed or processing -> failed, and completed
\* and failed are terminal, also when the webhook step goes wrong
C18_StatusLifecycle ==
    [][\A j \in JobIds :
          (jobs[j] # None /\ jobs'[j] # None) =>
              \/ jobs'[j].status = jobs[j].status
              \/ jobs[j].status = "pending" /\ jobs'[j].status = "processing"
              \/ jobs[j].status = "processing" /\ jobs'[j].status = "completed"
              \/ jobs[j].status = "processing" /\ jobs'[j].status = "failed"]_vars

\* C19 (as claimed): every value passed to the progress callback is a
\* fraction in [0, 1], and every progress value stored in a job that is
\* processing lies in [0.1, 0.9]
C19_ProgressWithinBounds ==
    /\ \A i \in DOMAIN calls.progress :
          0 <= calls.progress[i][1] /\ calls.progress[i][1] <= calls.progress[i][2]
    /\ \A j \in JobIds :
          (jobs[j] # None /\ jobs[j].status = "processing") =>
              (1000 <= jobs[j].progress /\ jobs[j].progress <= 9000)

\* C20: GET /results/{job_id} returns analysis results only for a job whose
\* status is completed; an unknown job yields 404, a pending or processing
\* job yields 202 without results, a failed job yields 500 carrying the
\* job's error
C20_ResultsOnlyWhenCompleted ==
    (response # None /\ response.endpoint = "results") =>
        /\ "full_results" \in DOMAIN response <=>
              (JobGet(response.job) # None
                  /\ JobGet(response.job).status = "completed")
        /\ IF JobGet(response.job) = None
           THEN response.code = 404
           ELSE IF JobGet(response.job).status \in {"pending", "processing"}
           THEN response.code = 202
           ELSE IF JobGet(response.job).status = "failed"
           THEN /\ response.code = 500
                /\ response.detail = JobGet(response.job).error
                /\ response.detail # None
           ELSE /\ response.code = 200
                /\ response.full_results = JobGet(response.job).results
                /\ response.full_results # None

C20_Witness ==
    /\ response # None
    /\ response.endpoint = "results"
    /\ response.code = 200
    /\ response.full_results # None
    /\ jobs[response.job].status = "completed"

\* C21 (as claimed): after delete_job(job_id) has returned, the job is absent
\* from the job table and neither its uploaded video nor its results file
\* exists at any later time, whatever its background task does
C21_DeletedStaysGone ==
    \A j \in JobIds :
        (jobs[j] # None /\ ~jobs[j].listed) =>
            /\ JobGet(j) = None
            /\ UploadPath(j) \notin files
            /\ ResultsPath(j) \notin files

----------------------------------------------------------------------------
(* Termination of a run of analyze_video (SpecLive): the loop is           *)
(* sequential code, so whenever a step is possible one is taken.           *)

SpecLive == Init /\ [][Next]_vars /\ WF_vars(Next)

\* C22 (as claimed): for every finite frame source that opens successfully
\* the run terminates: the loop reaches end of input and the accumulated
\* state is compiled into the returned AnalysisResults (DONE is reached)
C22_OpenedRunReachesDone == (pc = "loop") ~> (pc = "done" /\ results # None)

----------------------------------------------------------------------------
(* BallTracker.detect_ball over a sequence of frames with at most one      *)
(* region each (SpecTrack)                                                 *)

MaxTrackCalls == 4

\* the contours of one frame: nothing, or one of the candidate regions
TrackContours == { f \in FrameContours : Len(f) <= 1 }

InitTrack ==
    /\ video = NoVideo
    /\ pc = "input"
    /\ NotStarted
    /\ FreshAnalyzer
    /\ frame_regions \in TrackContours
    /\ ar = None /\ stats = None
    /\ NoServer

\* the caller passes the next frame
NextTrackFrame ==
    /\ pc = "returned"
    /\ frame_number + 1 < MaxTrackCalls
    /\ frame_number' = frame_number + 1
    /\ frame_regions' \in TrackContours
    /\ pc' = "input"
    /\ UNCHANGED <<video, error, fps, total_frames, frame_skip, last_shot_frame,
                   shot_type, ball_pos, calls, detected, shot_outcome, ar, stats>>
    /\ UNCHANGED analyzer_vars
    /\ UNCHANGED server_vars

NextTrack == DetectBallCall \/ NextTrackFrame

SpecTrack == InitTrack /\ [][NextTrack]_vars

\* C23: after any sequence of detect_ball calls the velocity is the last
\* detected position minus the detected position before it, the zero vector
\* while fewer than two positions have been detected; a call that finds no
\* candidate leaves velocity, last position and history unchanged
C23_VelocityIsLastDifference ==
    /\ [](LET n == Len(detected)
          IN  velocity = IF n < 2 THEN <<0, 0>>
                         ELSE <<detected[n].pos[1] - detected[n - 1].pos[1],
                                detected[n].pos[2] - detected[n - 1].pos[2]>>)
    /\ [][(pc = "input" /\ pc' = "returned" /\ ball_pos' = None) =>
             UNCHANGED <<velocity, last_position, ball_history>>]_vars

\* two detections with a miss between them and a miss after them
C23_Witness ==
    /\ pc = "returned"
    /\ ball_pos = None
    /\ Len(detected) = 2
    /\ detected[2].frame - detected[1].frame = 2
    /\ velocity # <<0, 0>>
    /\ velocity = <<detected[2].pos[1] - detected[1].pos[1],
                    detected[2].pos[2] - detected[1].pos[2]>>

\* C27 (as claimed): in every reachable state of the job table a job's
\* results are non-null and its progress is 1.0 if and only if its status is
\* completed; a pending job has progress 0.0 and null results; a failed job
\* has a non-null error and null results
C27_JobRecordConsistent ==
    \A j \in JobIds :
        JobGet(j) # None =>
            /\ (jobs[j].results # None /\ jobs[j].progress = 10000)
                  <=> jobs[j].status = "completed"
            /\ jobs[j].status = "pending" =>
                  (jobs[j].progress = 0 /\ jobs[j].results = None)
            /\ jobs[j].status = "failed" =>
                  (jobs[j].error # None /\ jobs[j].results = None)

\* C28: the completion webhook is posted at most once per job, only for a
\* job with a configured webhook_url, and only after that job's status has
\* become completed with its results stored; it is never posted for a job
\* that failed
C28_WebhookOncePerCompletedJob ==
    \A i \in DOMAIN webhook_posts :
        /\ \A k \in DOMAIN webhook_posts :
              webhook_posts[k].job_id = webhook_posts[i].job_id => k = i
        /\ jobs[webhook_posts[i].job_id] # None
        /\ jobs[webhook_posts[i].job_id].webhook_url # None
        /\ jobs[webhook_posts[i].job_id].webhook_url = webhook_posts[i].url
        /\ jobs[webhook_posts[i].job_id].status = "completed"
        /\ jobs[webhook_posts[i].job_id].results # None
        /\ jobs[webhook_posts[i].job_id].results.avatar_stats
              = webhook_posts[i].avatar_stats

\* one job's webhook was posted; the other job had none configured and
\* completed, or failed
C28_Witness ==
    /\ Len(webhook_posts) = 1
    /\ \E j \in JobIds :
          /\ j # webhook_posts[1].job_id
          /\ jobs[j] # None
          /\ task[j] = "finished"
          /\ jobs[j].status \in {"completed", "failed"}

====
